---- MODULE Spec2Model ----
(***************************************************************************)
(* Model of the resulta library (src/unnamed/part_003, the full index.ts): *)
(* the Result and Option unions, the synchronous combinators, combine's    *)
(* loop, and the two async bridges tryCatchAsync and fromPromise.          *)
(*                                                                         *)
(* JavaScript objects live in a heap; a reference is an index into it, so  *)
(* "the same instance" (reference passthrough) and "an equal object"       *)
(* (structural equality) are different things in the model, as in the code.*)
(***************************************************************************)
EXTENDS Integers, Sequences, FiniteSets, TLC

VARIABLES heap, origin, last, pc, results, idx, values, inspected, combined, calls

vars == <<heap, origin, last, pc, results, idx, values, inspected, combined, calls>>

(***************************************************************************)
(* Bounds of the model.                                                    *)
(***************************************************************************)
MaxHeap == 3
MaxLen == 3
MaxCalls == 2

(***************************************************************************)
(* Payloads supplied by callers.                                           *)
(***************************************************************************)
Val == {2, 42}
Errs == {"error", "No value"}
Thrown == {[kind |-> "Error", text |-> "error"], [kind |-> "string", text |-> "boom"]}
NoThrown == [kind |-> "none", text |-> ""]

(***************************************************************************)
(* Constructors: the object each one returns.                              *)
(***************************************************************************)
ok(value) == [ok |-> TRUE, value |-> value]

err(error) == [ok |-> FALSE, error |-> error]

some(value) == [isSome |-> TRUE, value |-> value]

none == [isSome |-> FALSE]

(***************************************************************************)
(* The heap.  origin[r] is a history variable: which call created object r *)
(* and from which argument object (0 when it has none).                    *)
(***************************************************************************)
Refs == 1..Len(heap)

NewRef == Len(heap) + 1

CanAlloc == Len(heap) < MaxHeap

IsResult(r) == "ok" \in DOMAIN heap[r]

IsOption(r) == "isSome" \in DOMAIN heap[r]

IsOk(r) == IsResult(r) /\ heap[r].ok

IsErr(r) == IsResult(r) /\ ~heap[r].ok

IsSome(r) == IsOption(r) /\ heap[r].isSome

Alloc(obj, op, src) ==
    /\ heap' = Append(heap, obj)
    /\ origin' = Append(origin, [op |-> op, src |-> src])

(***************************************************************************)
(* last: the most recent combinator call, its arguments, how many times it *)
(* invoked the caller's function, what that function returned (fnRet, a    *)
(* reference, 0 when it returns no object) and what the call returned.     *)
(***************************************************************************)
NoCall == [op |-> "none", arg |-> 0, e |-> "", fn |-> "", calls |-> 0, fnRet |-> 0, ret |-> 0]

Call(op, arg, e, fn, n, fnRet, ret) ==
    [op |-> op, arg |-> arg, e |-> e, fn |-> fn, calls |-> n, fnRet |-> fnRet, ret |-> ret]

Init ==
    /\ heap = <<>>
    /\ origin = <<>>
    /\ last = NoCall
    /\ pc = "idle"
    /\ results = <<>>
    /\ idx = 0
    /\ values = <<>>
    /\ inspected = {}
    /\ combined = 0
    /\ calls = <<>>

combineVars == <<pc, results, idx, values, inspected, combined>>

(***************************************************************************)
(* Caller code building objects with the constructors.                     *)
(***************************************************************************)
Ok ==
    /\ pc = "idle" /\ CanAlloc
    /\ \E v \in Val : Alloc(ok(v), "ok", 0)
    /\ UNCHANGED <<last, combineVars, calls>>

Err ==
    /\ pc = "idle" /\ CanAlloc
    /\ \E e \in Errs : Alloc(err(e), "err", 0)
    /\ UNCHANGED <<last, combineVars, calls>>

Some ==
    /\ pc = "idle" /\ CanAlloc
    /\ \E v \in Val : Alloc(some(v), "some", 0)
    /\ UNCHANGED <<last, combineVars, calls>>

None ==
    /\ pc = "idle" /\ CanAlloc
    /\ Alloc(none, "none", 0)
    /\ UNCHANGED <<last, combineVars, calls>>

(***************************************************************************)
(* Functions the caller passes to map and mapOption.                       *)
(***************************************************************************)
MapFns == {"double", "inc"}

ApplyFn(fn, v) == IF fn = "double" THEN v * 2 ELSE v + 1

(***************************************************************************)
(* map(result, fn): result.ok ? ok(fn(result.value)) : result              *)
(***************************************************************************)
MapEagerFn(r, fn) ==
    /\ IsResult(r)
    /\ IF heap[r].ok
       THEN /\ CanAlloc
            /\ Alloc(ok(ApplyFn(fn, heap[r].value)), "map", r)
            /\ last' = Call("map", r, "", fn, 1, 0, NewRef)
       ELSE /\ last' = Call("map", r, "", fn, 1, 0, r)
            /\ UNCHANGED <<heap, origin>>
    /\ UNCHANGED <<combineVars, calls>>

Map(r, fn) ==
    /\ IsResult(r)
    /\ IF heap[r].ok
       THEN /\ CanAlloc
            /\ Alloc(ok(ApplyFn(fn, heap[r].value)), "map", r)
            /\ last' = Call("map", r, "", fn, 1, 0, NewRef)
       ELSE /\ last' = Call("map", r, "", fn, 0, 0, r)
            /\ UNCHANGED <<heap, origin>>
    /\ UNCHANGED <<combineVars, calls>>

(***************************************************************************)
(* Functions the caller passes to flatMap; each returns a fresh Result.    *)
(***************************************************************************)
FlatMapFns == {"okDouble", "fail"}

ApplyResultFn(fn, v) == IF fn = "okDouble" THEN ok(v * 2) ELSE err("error")

(***************************************************************************)
(* flatMap(result, fn): result.ok ? fn(result.value) : result              *)
(***************************************************************************)
FlatMapWraps(r, fn) ==
    /\ IsResult(r)
    /\ IF heap[r].ok
       THEN /\ Len(heap) + 2 <= MaxHeap
            /\ heap' = heap \o <<ApplyResultFn(fn, heap[r].value),
                                 ok(ApplyResultFn(fn, heap[r].value))>>
            /\ origin' = origin \o <<[op |-> "fn", src |-> r], [op |-> "flatMap", src |-> r]>>
            /\ last' = Call("flatMap", r, "", fn, 1, NewRef, NewRef + 1)
       ELSE /\ last' = Call("flatMap", r, "", fn, 0, 0, r)
            /\ UNCHANGED <<heap, origin>>
    /\ UNCHANGED <<combineVars, calls>>

FlatMap(r, fn) ==
    /\ IsResult(r)
    /\ IF heap[r].ok
       THEN /\ CanAlloc
            /\ Alloc(ApplyResultFn(fn, heap[r].value), "flatMap", r)
            /\ last' = Call("flatMap", r, "", fn, 1, NewRef, NewRef)
       ELSE /\ last' = Call("flatMap", r, "", fn, 0, 0, r)
            /\ UNCHANGED <<heap, origin>>
    /\ UNCHANGED <<combineVars, calls>>

(***************************************************************************)
(* optionToResult(option, error): option.isSome ? ok(option.value)         *)
(*                                              : err(error)               *)
(***************************************************************************)
OptionToResult(o, error) ==
    /\ IsOption(o) /\ CanAlloc
    /\ Alloc(IF heap[o].isSome THEN ok(heap[o].value) ELSE err(error), "optionToResult", o)
    /\ last' = Call("optionToResult", o, error, "", 0, 0, NewRef)
    /\ UNCHANGED <<combineVars, calls>>

(***************************************************************************)
(* resultToOption(result): result.ok ? some(result.value) : none()         *)
(***************************************************************************)
ResultToOptionDropsValue(r) ==
    /\ IsResult(r) /\ CanAlloc
    /\ Alloc(none, "resultToOption", r)
    /\ last' = Call("resultToOption", r, "", "", 0, 0, NewRef)
    /\ UNCHANGED <<combineVars, calls>>

ResultToOption(r) ==
    /\ IsResult(r) /\ CanAlloc
    /\ Alloc(IF heap[r].ok THEN some(heap[r].value) ELSE none, "resultToOption", r)
    /\ last' = Call("resultToOption", r, "", "", 0, 0, NewRef)
    /\ UNCHANGED <<combineVars, calls>>

(***************************************************************************)
(* mapOption(option, fn): option.isSome ? some(fn(option.value)) : none()  *)
(***************************************************************************)
MapOption(o, fn) ==
    /\ IsOption(o) /\ CanAlloc
    /\ IF heap[o].isSome
       THEN /\ Alloc(some(ApplyFn(fn, heap[o].value)), "mapOption", o)
            /\ last' = Call("mapOption", o, "", fn, 1, 0, NewRef)
       ELSE /\ Alloc(none, "mapOption", o)
            /\ last' = Call("mapOption", o, "", fn, 0, 0, NewRef)
    /\ UNCHANGED <<combineVars, calls>>

Next ==
    \/ Ok
    \/ Err
    \/ Some
    \/ None
    \/ \E r \in Refs, fn \in MapFns : Map(r, fn)
    \/ \E r \in Refs, fn \in FlatMapFns : FlatMap(r, fn)
    \/ \E o \in Refs, e \in Errs : OptionToResult(o, e)
    \/ \E r \in Refs : ResultToOption(r)
    \/ \E o \in Refs, fn \in MapFns : MapOption(o, fn)

Spec == Init /\ [][Next]_vars

(***************************************************************************)
(* combine(results), one loop iteration per step.                          *)
(*   const values = [];                                                    *)
(*   for (const result of results) {                                       *)
(*       if (!result.ok) return result;                                    *)
(*       values.push(result.value);                                        *)
(*   }                                                                     *)
(*   return ok(values);                                                    *)
(* idx is the iterator's position, inspected the indices of the elements   *)
(* the loop has read so far, combined the reference returned.  The caller  *)
(* is suspended while combine runs (the constructors wait for pc = "idle").*)
(***************************************************************************)
UpTo(n) == UNION {[1..m -> {r \in Refs : IsResult(r)}] : m \in 0..n}

CombineCall ==
    /\ pc = "idle"
    /\ \E rs \in UpTo(MaxLen) : results' = rs
    /\ idx' = 1
    /\ values' = <<>>
    /\ inspected' = {}
    /\ combined' = 0
    /\ pc' = "loop"
    /\ UNCHANGED <<heap, origin, last, calls>>

CombineStepSkipsErr ==
    /\ pc = "loop"
    /\ idx <= Len(results)
    /\ inspected' = inspected \cup {idx}
    /\ IF ~heap[results[idx]].ok
       THEN UNCHANGED values
       ELSE values' = Append(values, heap[results[idx]].value)
    /\ idx' = idx + 1
    /\ UNCHANGED <<heap, origin, last, pc, results, combined, calls>>

CombineStepUnshift ==
    /\ pc = "loop"
    /\ idx <= Len(results)
    /\ inspected' = inspected \cup {idx}
    /\ IF ~heap[results[idx]].ok
       THEN /\ combined' = results[idx]
            /\ pc' = "done"
            /\ UNCHANGED <<idx, values>>
       ELSE /\ values' = <<heap[results[idx]].value>> \o values
            /\ idx' = idx + 1
            /\ UNCHANGED <<pc, combined>>
    /\ UNCHANGED <<heap, origin, last, results, calls>>

CombineStep ==
    /\ pc = "loop"
    /\ idx <= Len(results)
    /\ inspected' = inspected \cup {idx}
    /\ IF ~heap[results[idx]].ok
       THEN /\ combined' = results[idx]
            /\ pc' = "done"
            /\ UNCHANGED <<idx, values>>
       ELSE /\ values' = Append(values, heap[results[idx]].value)
            /\ idx' = idx + 1
            /\ UNCHANGED <<pc, combined>>
    /\ UNCHANGED <<heap, origin, last, results, calls>>

CombineReturn ==
    /\ pc = "loop"
    /\ idx > Len(results)
    /\ Alloc(ok(values), "combine", 0)
    /\ combined' = NewRef
    /\ pc' = "done"
    /\ UNCHANGED <<last, results, idx, values, inspected, calls>>

CombineNext ==
    \/ Ok
    \/ Err
    \/ CombineCall
    \/ CombineStep
    \/ CombineReturn

CombineSpec == Init /\ [][CombineNext]_vars

(***************************************************************************)
(* The async bridges.  calls[c] is one bridge call:                        *)
(*   kind     which bridge was called                                      *)
(*   op       the wrapped operation: "pending", "fulfilled" (with v) or    *)
(*            "rejected" (with e, the value thrown or rejected with)       *)
(*   handler  the errorHandler given to fromPromise ("" for tryCatchAsync) *)
(*   fnCalls  how many times the bridge invoked fn                         *)
(*   hCalls   how many times the bridge invoked errorHandler, and hArg the *)
(*            argument of that invocation                                  *)
(*   out      the promise the bridge returned: "pending", "fulfilled" with *)
(*            the Result heap[ret], or "rejected"                          *)
(***************************************************************************)
Handlers == {"prefix", "identity"}

ApplyHandler(h, e) ==
    IF h = "prefix" THEN [kind |-> "string", text |-> "Error: " \o e.text] ELSE e

Settled == {[op |-> "fulfilled", v |-> v, e |-> NoThrown] : v \in Val}
             \cup {[op |-> "rejected", v |-> 0, e |-> e] : e \in Thrown}

PromiseStates == {[op |-> "pending", v |-> 0, e |-> NoThrown]} \cup Settled

BridgeCall(kind, p, handler, fnCalls, out, ret) ==
    [kind |-> kind, op |-> p.op, v |-> p.v, e |-> p.e, handler |-> handler,
     fnCalls |-> fnCalls, hCalls |-> 0, hArg |-> NoThrown, out |-> out, ret |-> ret]

(***************************************************************************)
(* tryCatchAsync(fn) up to its await: fn is invoked inside the try block.  *)
(* Either fn throws before returning a promise, and the catch block makes  *)
(* the call return err(error) without suspending, or fn returns a promise  *)
(* (pending or already settled) and the call suspends on it.               *)
(***************************************************************************)
TryCatchAsync ==
    /\ Len(calls) < MaxCalls
    /\ \/ \E e \in Thrown :
            /\ Alloc(err(e), "tryCatchAsync", 0)
            /\ calls' = Append(calls, BridgeCall("tryCatchAsync",
                            [op |-> "rejected", v |-> 0, e |-> e], "", 1, "fulfilled", NewRef))
       \/ \E p \in PromiseStates :
            /\ calls' = Append(calls, BridgeCall("tryCatchAsync", p, "", 1, "pending", 0))
            /\ UNCHANGED <<heap, origin>>
    /\ UNCHANGED <<last, combineVars>>

(***************************************************************************)
(* fromPromise(promise, errorHandler) up to its await: the promise is in   *)
(* any state when it is passed in, and the call suspends on it.            *)
(***************************************************************************)
FromPromise ==
    /\ Len(calls) < MaxCalls
    /\ \E p \in PromiseStates, h \in Handlers :
            calls' = Append(calls, BridgeCall("fromPromise", p, h, 0, "pending", 0))
    /\ UNCHANGED <<heap, origin, last, combineVars>>

(***************************************************************************)
(* The wrapped operation settles (a step of the host, not of the library). *)
(***************************************************************************)
Settle(c) ==
    /\ c \in DOMAIN calls
    /\ calls[c].op = "pending"
    /\ \E p \in Settled :
            calls' = [calls EXCEPT ![c].op = p.op, ![c].v = p.v, ![c].e = p.e]
    /\ UNCHANGED <<heap, origin, last, combineVars>>

(***************************************************************************)
(* tryCatchAsync after its await: return ok(result), or in the catch block *)
(* return err(error as E).                                                 *)
(***************************************************************************)
ResumeTryCatchAsyncWrapsError(c) ==
    /\ c \in DOMAIN calls
    /\ calls[c].kind = "tryCatchAsync"
    /\ calls[c].out = "pending"
    /\ calls[c].op # "pending"
    /\ Alloc(IF calls[c].op = "fulfilled" THEN ok(calls[c].v)
             ELSE err([kind |-> "Error", text |-> calls[c].e.text]),
             "tryCatchAsync", 0)
    /\ calls' = [calls EXCEPT ![c].out = "fulfilled", ![c].ret = NewRef]
    /\ UNCHANGED <<last, combineVars>>

ResumeTryCatchAsync(c) ==
    /\ c \in DOMAIN calls
    /\ calls[c].kind = "tryCatchAsync"
    /\ calls[c].out = "pending"
    /\ calls[c].op # "pending"
    /\ Alloc(IF calls[c].op = "fulfilled" THEN ok(calls[c].v) ELSE err(calls[c].e),
             "tryCatchAsync", 0)
    /\ calls' = [calls EXCEPT ![c].out = "fulfilled", ![c].ret = NewRef]
    /\ UNCHANGED <<last, combineVars>>

(***************************************************************************)
(* fromPromise after its await: return ok(value), or in the catch block    *)
(* return err(errorHandler(error)).                                        *)
(***************************************************************************)
ResumeFromPromiseRawError(c) ==
    /\ c \in DOMAIN calls
    /\ calls[c].kind = "fromPromise"
    /\ calls[c].out = "pending"
    /\ calls[c].op # "pending"
    /\ Alloc(IF calls[c].op = "fulfilled" THEN ok(calls[c].v) ELSE err(calls[c].e),
             "fromPromise", 0)
    /\ calls' = [calls EXCEPT ![c].out = "fulfilled", ![c].ret = NewRef]
    /\ UNCHANGED <<last, combineVars>>

ResumeFromPromise(c) ==
    /\ c \in DOMAIN calls
    /\ calls[c].kind = "fromPromise"
    /\ calls[c].out = "pending"
    /\ calls[c].op # "pending"
    /\ IF calls[c].op = "fulfilled"
       THEN /\ Alloc(ok(calls[c].v), "fromPromise", 0)
            /\ calls' = [calls EXCEPT ![c].out = "fulfilled", ![c].ret = NewRef]
       ELSE /\ Alloc(err(ApplyHandler(calls[c].handler, calls[c].e)), "fromPromise", 0)
            /\ calls' = [calls EXCEPT ![c].out = "fulfilled", ![c].ret = NewRef,
                                      ![c].hCalls = @ + 1, ![c].hArg = calls[c].e]
    /\ UNCHANGED <<last, combineVars>>

(***************************************************************************)
(* The host runs the continuation of a suspended call whose awaited        *)
(* promise has settled.                                                    *)
(***************************************************************************)
ResumeInCallOrder(c) ==
    /\ \A d \in 1..(c - 1) : d \in DOMAIN calls => calls[d].out # "pending"
    /\ (ResumeTryCatchAsync(c) \/ ResumeFromPromise(c))

Resume(c) == ResumeTryCatchAsync(c) \/ ResumeFromPromise(c)

AsyncNext ==
    \/ TryCatchAsync
    \/ FromPromise
    \/ \E c \in 1..MaxCalls : Settle(c)
    \/ \E c \in 1..MaxCalls : Resume(c)

AsyncSpec == Init /\ [][AsyncNext]_vars

(***************************************************************************)
(* The host's job queue runs every continuation that is ready; whether an  *)
(* operation ever settles is up to the operation (no fairness on Settle).  *)
(***************************************************************************)
LiveSpec == AsyncSpec /\ \A c \in 1..MaxCalls : WF_vars(Resume(c))


(***************************************************************************)
(* Properties.                                                             *)
(***************************************************************************)
FirstErrIndex ==
    IF \E i \in DOMAIN results : IsErr(results[i])
    THEN CHOOSE i \in DOMAIN results :
            IsErr(results[i]) /\ \A j \in 1..(i - 1) : ~IsErr(results[j])
    ELSE 0

\* C1: when the input of combine contains an Err, combine returns the Err
\* at the lowest index (that very object), and the loop never reads an
\* element at a higher index: at the return it has read exactly the elements
\* up to and including that Err.
CombineFirstErrWins ==
    (pc \in {"loop", "done"} /\ FirstErrIndex # 0) =>
        /\ inspected \subseteq 1..FirstErrIndex
        /\ pc = "done" => /\ combined = results[FirstErrIndex]
                          /\ inspected = 1..FirstErrIndex

CombineFirstErrWinsWitness ==
    /\ pc = "done"
    /\ Len(results) = 3
    /\ FirstErrIndex = 2
    /\ IsErr(results[3])
    /\ results[3] # results[2]
    /\ combined = results[2]

\* C2: when every element of the input of combine is Ok, combine returns a
\* new ok(values) where values has the length of the input and values[i] is
\* the value of results[i]; for the empty input it returns ok([]).
CombineAllOk ==
    (pc = "done" /\ FirstErrIndex = 0) =>
        /\ IsOk(combined)
        /\ Len(heap[combined].value) = Len(results)
        /\ heap[combined].value = [i \in 1..Len(results) |-> heap[results[i]].value]
        /\ Len(results) = 0 => heap[combined] = ok(<<>>)

CombineAllOkWitness ==
    /\ pc = "done"
    /\ FirstErrIndex = 0
    /\ Len(results) >= 2
    /\ heap[results[1]].value # heap[results[2]].value
    /\ IsOk(combined)

\* C3: tryCatchAsync invokes fn once and its promise is never rejected; once
\* it is fulfilled the Result is ok(v) if fn completed with v and err(e) if
\* fn threw or rejected with e, where e is the thrown value itself.
TryCatchAsyncCaptures ==
    \A c \in DOMAIN calls :
        calls[c].kind = "tryCatchAsync" =>
            /\ calls[c].out # "rejected"
            /\ calls[c].fnCalls = 1
            /\ calls[c].out = "fulfilled" =>
                  /\ calls[c].op # "pending"
                  /\ calls[c].op = "fulfilled" => heap[calls[c].ret] = ok(calls[c].v)
                  /\ calls[c].op = "rejected" => heap[calls[c].ret] = err(calls[c].e)

TryCatchAsyncCapturesWitness ==
    \E c \in DOMAIN calls :
        /\ calls[c].kind = "tryCatchAsync"
        /\ calls[c].out = "fulfilled"
        /\ calls[c].op = "rejected"
        /\ calls[c].e.kind = "string"
        /\ origin[calls[c].ret].op = "tryCatchAsync"
        /\ \E d \in DOMAIN calls :
              /\ calls[d].kind = "tryCatchAsync"
              /\ calls[d].out = "fulfilled"
              /\ calls[d].op = "fulfilled"

\* C4: map invokes fn exactly once on an Ok and returns ok(fn(value)); on an
\* Err it invokes fn zero times and returns the Err it was given, the same
\* reference.
MapOnce ==
    last.op = "map" =>
        IF IsOk(last.arg)
        THEN /\ last.calls = 1
             /\ heap[last.ret] = ok(ApplyFn(last.fn, heap[last.arg].value))
        ELSE /\ last.calls = 0
             /\ last.ret = last.arg
             /\ IsErr(last.ret)

MapOnceWitness ==
    /\ last.op = "map"
    /\ IsErr(last.arg)
    /\ last.ret = last.arg
    /\ \E r \in Refs : origin[r].op = "map"

\* C5: flatMap on an Ok returns exactly the Result fn returned (no extra
\* wrapping, Ok or Err); on an Err it returns that Err and does not invoke
\* fn, so a chain step whose input is the Err of an earlier step invokes
\* nothing and hands that same Err on.
FlatMapNoWrap ==
    last.op = "flatMap" =>
        IF IsOk(last.arg)
        THEN /\ last.calls = 1
             /\ last.ret = last.fnRet
             /\ heap[last.ret] = ApplyResultFn(last.fn, heap[last.arg].value)
        ELSE /\ last.calls = 0
             /\ last.ret = last.arg
             /\ IsErr(last.ret)

FlatMapNoWrapWitness ==
    /\ last.op = "flatMap"
    /\ last.fn = "okDouble"
    /\ IsErr(last.arg)
    /\ origin[last.arg].op = "flatMap"
    /\ last.ret = last.arg
    /\ last.calls = 0

\* C6: optionToResult(resultToOption(r), e) is ok(v) when r is ok(v) and
\* err(e) when r is err(x): the round trip keeps a success value and
\* replaces the original error by e.
RoundTrip ==
    (last.op = "optionToResult" /\ origin[last.arg].op = "resultToOption") =>
        LET r == origin[last.arg].src
        IN  /\ IsOk(r) => heap[last.ret] = ok(heap[r].value)
            /\ IsErr(r) => heap[last.ret] = err(last.e)

RoundTripWitness ==
    /\ last.op = "optionToResult"
    /\ origin[last.arg].op = "resultToOption"
    /\ IsOk(origin[last.arg].src)
    /\ IsOk(last.ret)

\* C7: fromPromise resolves to ok(v) without invoking errorHandler when the
\* promise fulfils with v; when it rejects with e, errorHandler is invoked
\* exactly once, with e, and the call resolves to err(errorHandler(e)), so
\* the raw e is never the error unless the handler itself returns it.
FromPromiseHandlesError ==
    \A c \in DOMAIN calls :
        calls[c].kind = "fromPromise" =>
            /\ calls[c].out = "pending" => calls[c].hCalls = 0
            /\ (calls[c].out = "fulfilled" /\ calls[c].op = "fulfilled") =>
                  /\ heap[calls[c].ret] = ok(calls[c].v)
                  /\ calls[c].hCalls = 0
            /\ (calls[c].out = "fulfilled" /\ calls[c].op = "rejected") =>
                  /\ calls[c].hCalls = 1
                  /\ calls[c].hArg = calls[c].e
                  /\ heap[calls[c].ret] = err(ApplyHandler(calls[c].handler, calls[c].e))
                  /\ ApplyHandler(calls[c].handler, calls[c].e) # calls[c].e
                        => heap[calls[c].ret] # err(calls[c].e)

FromPromiseHandlesErrorWitness ==
    \E c \in DOMAIN calls :
        /\ calls[c].kind = "fromPromise"
        /\ calls[c].out = "fulfilled"
        /\ calls[c].op = "rejected"
        /\ calls[c].handler = "prefix"
        /\ heap[calls[c].ret].error.text = "Error: boom"

\* C8: a bridge call is pending for as long as its operation is pending
\* (it has resolved only if the operation has settled, so a call on an
\* operation that never settles never resolves), and once the operation has
\* settled the call eventually resolves, whatever the other calls do.
BridgeFollowsOperation ==
    /\ [](\A c \in DOMAIN calls : calls[c].out # "pending" => calls[c].op # "pending")
    /\ \A c \in 1..MaxCalls :
          (c \in DOMAIN calls /\ calls[c].op # "pending")
              ~> (c \in DOMAIN calls /\ calls[c].out = "fulfilled")

BridgeFollowsOperationWitness ==
    /\ Len(calls) >= 2
    /\ calls[1].op = "pending"
    /\ calls[1].out = "pending"
    /\ calls[2].out = "fulfilled"
    /\ origin[calls[2].ret].op \in {"tryCatchAsync", "fromPromise"}

\* C9: a Some option carries its discriminant in a field named is_some:
\* resultToOption(ok(v)) is { is_some: true, value: v } and
\* mapOption(some(v), fn) is { is_some: true, value: fn(v) }.
SomeFieldIsSnakeCase ==
    /\ (last.op = "resultToOption" /\ IsOk(last.arg)) =>
          heap[last.ret] = [is_some |-> TRUE, value |-> heap[last.arg].value]
    /\ (last.op = "mapOption" /\ IsSome(last.arg)) =>
          heap[last.ret] = [is_some |-> TRUE, value |-> ApplyFn(last.fn, heap[last.arg].value)]

====
